---- MODULE Spec2Model ----
(***************************************************************************)
(* A model of the shlex crate (src/src/lib.rs): the word-splitting scanner *)
(* Shlex (next_char, parse_word, parse_double, parse_single, next), the    *)
(* whole-string split, and the inverse functions quote and join.           *)
(*                                                                         *)
(* Strings are sequences of bytes (0..255), written with their ASCII       *)
(* codes.  A scanner is a record [in_str, pos, line_no]: in_str and pos    *)
(* are the state of the byte iterator in_iter (the string it walks and the *)
(* number of bytes it has handed out), line_no is the public field.        *)
(***************************************************************************)
EXTENDS Integers, Sequences, FiniteSets, TLC

VARIABLES in_str, pos, line_no, last, items, split_res,
          quote_in, quoted, words, joined, dq, sq

vars == <<in_str, pos, line_no, last, items, split_res,
          quote_in, quoted, words, joined, dq, sq>>

(* ------------------------------ bytes --------------------------------- *)
TAB == 9
LF == 10
CR == 13
SPACE == 32
DQUOTE == 34
HASH == 35
DOLLAR == 36
SQUOTE == 39
BACKSLASH == 92
BACKTICK == 96

(* ------------------------------ bounds -------------------------------- *)
MaxLen == 4
MaxRoundLen == 4
MaxQuoteLen == 2
MaxWords == 2
MaxWordLen == 1
MaxDoubleLen == 4
MaxSingleLen == 4
MaxUnits == 4

(* The concatenation of a sequence of byte strings. *)
RECURSIVE Flatten(_)
Flatten(ss) == IF ss = << >> THEN << >> ELSE Head(ss) \o Flatten(Tail(ss))

(* All byte strings over the alphabet A of length at most n. *)
RECURSIVE StringsUpTo(_, _)
StringsUpTo(A, n) ==
  IF n = 0 THEN {<< >>}
  ELSE LET shorter == StringsUpTo(A, n - 1)
       IN  shorter \cup {Append(s, c) : s \in {t \in shorter : Len(t) = n - 1}, c \in A}

(* ------------------------------ Error --------------------------------- *)
EndOfStringBackslash == "EndOfStringBackslash"
UnclosedDoubleQuote == "UnclosedDoubleQuote"
UnclosedSingleQuote == "UnclosedSingleQuote"
NoError == "NoError"

Error == {EndOfStringBackslash, UnclosedDoubleQuote, UnclosedSingleQuote}

(* Option<u8>::None, as returned by the byte iterator at end of input. *)
None == -1

(* Option<Result<String, Error>>, the item type of the iterator. *)
ItemNone == [kind |-> "None", word |-> << >>, err |-> NoError]
ItemOk(w) == [kind |-> "Ok", word |-> w, err |-> NoError]
ItemErr(e) == [kind |-> "Err", word |-> << >>, err |-> e]

(* ------------------------------ Shlex --------------------------------- *)
(* Shlex::new: a scanner at the start of in_s, line_no = 1. *)
Shlex_new(in_s) == [in_str |-> in_s, pos |-> 0, line_no |-> 1]

(* next_char that hands out the low seven bits of each byte (mutant). *)
next_char_ascii(sh) ==
  IF sh.pos < Len(sh.in_str)
  THEN LET res == sh.in_str[sh.pos + 1] % 128
       IN  [res |-> res,
            sh  |-> [sh EXCEPT !.pos = @ + 1,
                               !.line_no = IF res = LF THEN @ + 1 ELSE @]]
  ELSE [res |-> None, sh |-> sh]

(* next_char without the line count (mutant). *)
next_char_nocount(sh) ==
  IF sh.pos < Len(sh.in_str)
  THEN [res |-> sh.in_str[sh.pos + 1], sh |-> [sh EXCEPT !.pos = @ + 1]]
  ELSE [res |-> None, sh |-> sh]

(* Shlex::next_char: pull one byte; count it when it is a newline. *)
next_char(sh) ==
  IF sh.pos < Len(sh.in_str)
  THEN LET res == sh.in_str[sh.pos + 1]
       IN  [res |-> res,
            sh  |-> [sh EXCEPT !.pos = @ + 1,
                               !.line_no = IF res = LF THEN @ + 1 ELSE @]]
  ELSE [res |-> None, sh |-> sh]

(* double_escape that also drops the backslash of an unrecognised escape  *)
(* (mutant).                                                              *)
double_escape_drop(result, ch3) ==
  IF ch3 = LF THEN result ELSE Append(result, ch3)

(* The match on ch3 in parse_double: the byte after a backslash. *)
double_escape(result, ch3) ==
  IF ch3 \in {DOLLAR, BACKTICK, DQUOTE, BACKSLASH} THEN Append(result, ch3)
  ELSE IF ch3 = LF THEN result
  ELSE Append(Append(result, BACKSLASH), ch3)

(* Shlex::parse_double: the loop run after an opening double quote. *)
RECURSIVE parse_double(_, _)
parse_double(sh, result) ==
  LET n2 == next_char(sh) IN
  IF n2.res # None
  THEN IF n2.res = BACKSLASH
       THEN LET n3 == next_char(n2.sh) IN
            IF n3.res # None
            THEN parse_double(n3.sh, double_escape(result, n3.res))
            ELSE [sh |-> n3.sh, result |-> result, err |-> EndOfStringBackslash]
       ELSE IF n2.res = DQUOTE
            THEN [sh |-> n2.sh, result |-> result, err |-> NoError]
            ELSE parse_double(n2.sh, Append(result, n2.res))
  ELSE [sh |-> n2.sh, result |-> result, err |-> UnclosedDoubleQuote]

(* single_escape with the escapes of double quotes (mutant). *)
single_escape_as_double(result, ch3) ==
  IF ch3 \in {DOLLAR, BACKTICK, DQUOTE, BACKSLASH} THEN Append(result, ch3)
  ELSE IF ch3 = LF THEN result
  ELSE Append(Append(result, BACKSLASH), ch3)

(* The match on ch3 in parse_single: the byte after a backslash. *)
single_escape(result, ch3) ==
  IF ch3 \in {SQUOTE, BACKSLASH} THEN Append(result, ch3)
  ELSE Append(Append(result, BACKSLASH), ch3)

(* The error of a single-quoted span left open, reported as the double    *)
(* one (mutant).                                                          *)
single_unclosed_as_double == UnclosedDoubleQuote

(* The error parse_single returns when the input ends inside the span. *)
single_unclosed == UnclosedSingleQuote

(* Shlex::parse_single: the loop run after an opening single quote. *)
RECURSIVE parse_single(_, _)
parse_single(sh, result) ==
  LET n2 == next_char(sh) IN
  IF n2.res # None
  THEN IF n2.res = BACKSLASH
       THEN LET n3 == next_char(n2.sh) IN
            IF n3.res # None
            THEN parse_single(n3.sh, single_escape(result, n3.res))
            ELSE [sh |-> n3.sh, result |-> result, err |-> EndOfStringBackslash]
       ELSE IF n2.res = SQUOTE
            THEN [sh |-> n2.sh, result |-> result, err |-> NoError]
            ELSE parse_single(n2.sh, Append(result, n2.res))
  ELSE [sh |-> n2.sh, result |-> result, err |-> single_unclosed]

(* word_backslash that accepts a backslash at end of input (mutant). *)
word_backslash_lenient(sh, result) ==
  LET n2 == next_char(sh) IN
  IF n2.res # None
  THEN [sh |-> n2.sh,
        result |-> IF n2.res # LF THEN Append(result, n2.res) ELSE result,
        err |-> NoError]
  ELSE [sh |-> n2.sh, result |-> result, err |-> NoError]

(* word_backslash that rejects a line continuation (mutant). *)
word_backslash_strict(sh, result) ==
  LET n2 == next_char(sh) IN
  IF n2.res # None /\ n2.res # LF
  THEN [sh |-> n2.sh, result |-> Append(result, n2.res), err |-> NoError]
  ELSE [sh |-> n2.sh, result |-> result, err |-> EndOfStringBackslash]

(* word_backslash that keeps an escaped newline in the word (mutant). *)
word_backslash_keepnl(sh, result) ==
  LET n2 == next_char(sh) IN
  IF n2.res # None
  THEN [sh |-> n2.sh, result |-> Append(result, n2.res), err |-> NoError]
  ELSE [sh |-> n2.sh, result |-> result, err |-> EndOfStringBackslash]

(* The backslash arm of parse_word: an escape outside quotes. *)
word_backslash(sh, result) ==
  LET n2 == next_char(sh) IN
  IF n2.res # None
  THEN [sh |-> n2.sh,
        result |-> IF n2.res # LF THEN Append(result, n2.res) ELSE result,
        err |-> NoError]
  ELSE [sh |-> n2.sh, result |-> result, err |-> EndOfStringBackslash]

(* parse_word_loop that reads one byte past the delimiter (mutant). *)
RECURSIVE parse_word_loop_ahead(_, _, _)
parse_word_loop_ahead(sh, ch, result) ==
  LET arm ==
        IF ch = DQUOTE THEN parse_double(sh, result) @@ [brk |-> FALSE]
        ELSE IF ch = SQUOTE THEN parse_single(sh, result) @@ [brk |-> FALSE]
        ELSE IF ch = BACKSLASH THEN word_backslash(sh, result) @@ [brk |-> FALSE]
        ELSE IF ch \in {SPACE, TAB, LF}
             THEN [sh |-> next_char(sh).sh, result |-> result, err |-> NoError,
                   brk |-> TRUE]
             ELSE [sh |-> sh, result |-> Append(result, ch), err |-> NoError,
                   brk |-> FALSE]
  IN  IF arm.err # NoError THEN [sh |-> arm.sh, item |-> ItemErr(arm.err)]
      ELSE IF arm.brk THEN [sh |-> arm.sh, item |-> ItemOk(arm.result)]
      ELSE LET n2 == next_char(arm.sh) IN
           IF n2.res # None
           THEN parse_word_loop_ahead(n2.sh, n2.res, arm.result)
           ELSE [sh |-> n2.sh, item |-> ItemOk(arm.result)]

(* parse_word_loop that also ends a word at a carriage return (mutant). *)
RECURSIVE parse_word_loop_cr(_, _, _)
parse_word_loop_cr(sh, ch, result) ==
  LET arm ==
        IF ch = DQUOTE THEN parse_double(sh, result) @@ [brk |-> FALSE]
        ELSE IF ch = SQUOTE THEN parse_single(sh, result) @@ [brk |-> FALSE]
        ELSE IF ch = BACKSLASH THEN word_backslash(sh, result) @@ [brk |-> FALSE]
        ELSE IF ch \in {SPACE, TAB, LF, CR}
             THEN [sh |-> sh, result |-> result, err |-> NoError, brk |-> TRUE]
             ELSE [sh |-> sh, result |-> Append(result, ch), err |-> NoError,
                   brk |-> FALSE]
  IN  IF arm.err # NoError THEN [sh |-> arm.sh, item |-> ItemErr(arm.err)]
      ELSE IF arm.brk THEN [sh |-> arm.sh, item |-> ItemOk(arm.result)]
      ELSE LET n2 == next_char(arm.sh) IN
           IF n2.res # None
           THEN parse_word_loop_cr(n2.sh, n2.res, arm.result)
           ELSE [sh |-> n2.sh, item |-> ItemOk(arm.result)]

(* The loop of parse_word, with ch the current byte and result the bytes  *)
(* collected so far.  brk is the break of the whitespace arm.             *)
RECURSIVE parse_word_loop(_, _, _)
parse_word_loop(sh, ch, result) ==
  LET arm ==
        IF ch = DQUOTE THEN parse_double(sh, result) @@ [brk |-> FALSE]
        ELSE IF ch = SQUOTE THEN parse_single(sh, result) @@ [brk |-> FALSE]
        ELSE IF ch = BACKSLASH THEN word_backslash(sh, result) @@ [brk |-> FALSE]
        ELSE IF ch \in {SPACE, TAB, LF}
             THEN [sh |-> sh, result |-> result, err |-> NoError, brk |-> TRUE]
             ELSE [sh |-> sh, result |-> Append(result, ch), err |-> NoError,
                   brk |-> FALSE]
  IN  IF arm.err # NoError THEN [sh |-> arm.sh, item |-> ItemErr(arm.err)]
      ELSE IF arm.brk THEN [sh |-> arm.sh, item |-> ItemOk(arm.result)]
      ELSE LET n2 == next_char(arm.sh) IN
           IF n2.res # None
           THEN parse_word_loop(n2.sh, n2.res, arm.result)
           ELSE [sh |-> n2.sh, item |-> ItemOk(arm.result)]

(* Shlex::parse_word: the word that starts with the byte ch, which the    *)
(* caller has consumed.  from_utf8_unchecked keeps the bytes as they are. *)
parse_word(sh, ch) == parse_word_loop(sh, ch, << >>)

(* skip_comment that ends the comment at a space as well (mutant). *)
RECURSIVE skip_comment_word(_)
skip_comment_word(sh) ==
  LET n2 == next_char(sh) IN
  IF n2.res # None
  THEN IF n2.res \in {LF, SPACE} THEN n2.sh ELSE skip_comment_word(n2.sh)
  ELSE n2.sh

(* The while-let loop of next: skip a comment up to and including its     *)
(* newline, or to the end of input.                                       *)
RECURSIVE skip_comment(_)
skip_comment(sh) ==
  LET n2 == next_char(sh) IN
  IF n2.res # None
  THEN IF n2.res = LF THEN n2.sh ELSE skip_comment(n2.sh)
  ELSE n2.sh

(* The skip loop of next, with ch the current byte. *)
RECURSIVE skip_loop(_, _)
skip_loop(sh, ch) ==
  IF ch \in {SPACE, TAB, LF, HASH}
  THEN LET sh1 == IF ch = HASH THEN skip_comment(sh) ELSE sh
           n2  == next_char(sh1)
       IN  IF n2.res # None
           THEN skip_loop(n2.sh, n2.res)
           ELSE [sh |-> n2.sh, item |-> ItemNone]
  ELSE parse_word(sh, ch)

(* next that ends the stream at a word that is empty (mutant). *)
next_skip_empty(sh) ==
  LET n == next_char(sh)
      r == skip_loop(n.sh, n.res)
  IN  IF n.res # None
      THEN IF r.item = ItemOk(<< >>) THEN [sh |-> r.sh, item |-> ItemNone] ELSE r
      ELSE [sh |-> n.sh, item |-> ItemNone]

(* next that yields an empty word at end of input (mutant). *)
next_eof_word(sh) ==
  LET n == next_char(sh) IN
  IF n.res # None
  THEN skip_loop(n.sh, n.res)
  ELSE [sh |-> n.sh, item |-> ItemOk(<< >>)]

(* Iterator::next for Shlex: one pull of the word stream. *)
next(sh) ==
  LET n == next_char(sh) IN
  IF n.res # None
  THEN skip_loop(n.sh, n.res)
  ELSE [sh |-> n.sh, item |-> ItemNone]

(* ------------------------------ split --------------------------------- *)
(* Result<Vec<String>, Error>; "Unset" marks a result not yet computed. *)
ResUnset == [kind |-> "Unset", words |-> << >>, err |-> NoError]
ResOk(ws) == [kind |-> "Ok", words |-> ws, err |-> NoError]
ResErr(e) == [kind |-> "Err", words |-> << >>, err |-> e]

(* collect that drops the errors and keeps the words (mutant). *)
RECURSIVE collect_lossy(_, _)
collect_lossy(sh, acc) ==
  LET r == next(sh) IN
  IF r.item.kind = "None" THEN ResOk(acc)
  ELSE IF r.item.kind = "Err" THEN collect_lossy(r.sh, acc)
  ELSE collect_lossy(r.sh, Append(acc, r.item.word))

(* collect() into a Result: pull until None, stop at the first Err. *)
RECURSIVE collect(_, _)
collect(sh, acc) ==
  LET r == next(sh) IN
  IF r.item.kind = "None" THEN ResOk(acc)
  ELSE IF r.item.kind = "Err" THEN ResErr(r.item.err)
  ELSE collect(r.sh, Append(acc, r.item.word))

(* split: a fresh scanner over in_s, drained by collect. *)
split(in_s) == collect(Shlex_new(in_s), << >>)

(* ------------------------------ quote --------------------------------- *)
(* is_meta that also takes ']' for a metacharacter (mutant). *)
is_meta_bracket(c) ==
  c \in {124, 38, 59, 60, 62, 40, 41, DOLLAR, BACKTICK, BACKSLASH, DQUOTE,
         SQUOTE, SPACE, TAB, CR, LF, 42, 63, 91, 93, HASH, 126, 61, 37}

(* is_meta without '#' (mutant). *)
is_meta_nohash(c) ==
  c \in {124, 38, 59, 60, 62, 40, 41, DOLLAR, BACKTICK, BACKSLASH, DQUOTE,
         SQUOTE, SPACE, TAB, CR, LF, 42, 63, 91, 126, 61, 37}

(* The closure of quote's any(): | & ; < > ( ) $ ` \ " ' space tab CR LF  *)
(* * ? [ # ~ = %                                                          *)
is_meta(c) ==
  c \in {124, 38, 59, 60, 62, 40, 41, DOLLAR, BACKTICK, BACKSLASH, DQUOTE,
         SQUOTE, SPACE, TAB, CR, LF, 42, 63, 91, HASH, 126, 61, 37}

(* needs_escape without the backslash (mutant). *)
needs_escape_nobackslash(c) == c \in {DOLLAR, BACKTICK, DQUOTE}

(* needs_escape without the backtick (mutant). *)
needs_escape_nobacktick(c) == c \in {DOLLAR, DQUOTE, BACKSLASH}

(* The match in quote's for loop: the bytes that get a backslash. *)
needs_escape(c) == c \in {DOLLAR, BACKTICK, DQUOTE, BACKSLASH}

(* The for loop of quote: copy in_s to out, escaping as it goes. *)
RECURSIVE quote_loop(_, _)
quote_loop(in_s, out) ==
  IF in_s = << >> THEN out
  ELSE LET c == Head(in_s)
           out1 == IF needs_escape(c) THEN Append(out, BACKSLASH) ELSE out
       IN  quote_loop(Tail(in_s), Append(out1, c))

(* quote: a string that splits into the one word in_s. *)
quote(in_s) ==
  IF Len(in_s) = 0 THEN <<DQUOTE, DQUOTE>>
  ELSE IF \E i \in 1..Len(in_s) : is_meta(in_s[i])
       THEN Append(quote_loop(in_s, <<DQUOTE>>), DQUOTE)
       ELSE in_s

(* ------------------------------ join ---------------------------------- *)
(* slice_join that ends every piece with the separator (mutant). *)
RECURSIVE slice_join_trailing(_, _)
slice_join_trailing(v, sep) ==
  IF v = << >> THEN << >>
  ELSE Head(v) \o sep \o slice_join_trailing(Tail(v), sep)

(* [Cow<str>]::join(sep): the pieces with sep between neighbours. *)
RECURSIVE slice_join(_, _)
slice_join(v, sep) ==
  IF v = << >> THEN << >>
  ELSE IF Len(v) = 1 THEN Head(v)
  ELSE Head(v) \o sep \o slice_join(Tail(v), sep)

(* join: quote every word, then join the results with one space. *)
join(ws) == slice_join([i \in 1..Len(ws) |-> quote(ws[i])], <<SPACE>>)

(* ========================= the state machines ========================= *)
NoPull == [kind |-> "NoPull", word |-> << >>, err |-> NoError]
DqUnset == [sh |-> Shlex_new(<< >>), result |-> << >>, err |-> "Unset"]
(* A string variable that holds no string yet. *)
Unset == <<None>>

(* The scanner held in the variables in_str, pos, line_no. *)
shl == [in_str |-> in_str, pos |-> pos, line_no |-> line_no]

(* The alphabets the inputs are drawn from. *)
ScanBytes == {TAB, LF, SPACE, DQUOTE, HASH, DOLLAR, SQUOTE, BACKSLASH, 97}
RoundBytes == {LF, SPACE, DQUOTE, DOLLAR, SQUOTE, BACKSLASH, 97}
QuoteBytes == {124, 38, 59, 60, 62, 40, 41, DOLLAR, BACKTICK, BACKSLASH, DQUOTE,
               SQUOTE, SPACE, TAB, CR, LF, 42, 63, 91, HASH, 126, 61, 37,
               93, 45, 97}
JoinBytes == {LF, SPACE, DQUOTE, BACKSLASH, HASH, 97}
(* Characters as UTF-8 byte strings; the last one is U+00E9, two bytes    *)
(* above 0x7F.                                                            *)
ByteUnits == {<<TAB>>, <<SPACE>>, <<LF>>, <<CR>>, <<DQUOTE>>, <<SQUOTE>>, <<BACKSLASH>>,
              <<HASH>>, <<DOLLAR>>, <<195, 169>>}
SingleBytes == {LF, SPACE, DQUOTE, DOLLAR, SQUOTE, BACKSLASH, 97}
DoubleBytes == {TAB, LF, SPACE, DQUOTE, HASH, DOLLAR, SQUOTE, BACKSLASH, BACKTICK, 97}

Idle ==
  /\ pos = 0 /\ line_no = 1 /\ last = NoPull /\ items = << >>
  /\ split_res = ResUnset /\ quote_in = Unset /\ quoted = Unset
  /\ words = << >> /\ joined = Unset /\ dq = DqUnset /\ sq = DqUnset

(* One pull of the iterator: Shlex::next on the scanner in the state. *)
Pull ==
  LET r == next(shl) IN
  /\ pos' = r.sh.pos
  /\ line_no' = r.sh.line_no
  /\ last' = r.item
  /\ items' = IF r.item.kind = "None" THEN items ELSE Append(items, r.item)
  /\ UNCHANGED <<in_str, split_res, quote_in, quoted, words, joined, dq, sq>>

(* A call of split on the input string (it builds its own scanner). *)
Split ==
  /\ split_res' = split(in_str)
  /\ UNCHANGED <<in_str, pos, line_no, last, items, quote_in, quoted, words,
                 joined, dq, sq>>

(* Spec: a scanner over an input string is pulled; split is called on the *)
(* same string.                                                           *)
Init ==
  /\ in_str \in StringsUpTo(ScanBytes, MaxLen)
  /\ Idle

Next == Pull \/ Split

Spec == Init /\ [][Next]_vars

(* SpecRound: quote is applied to the input string or to a word of its    *)
(* successful split, and the quoted string is split again.                *)
QuoteInput ==
  /\ quote_in' = in_str
  /\ quoted' = quote(in_str)
  /\ words' = << >>
  /\ split_res' = ResUnset
  /\ UNCHANGED <<in_str, pos, line_no, last, items, joined, dq, sq>>

QuoteWord ==
  LET r == split(in_str) IN
  /\ r.kind = "Ok"
  /\ \E i \in 1..Len(r.words) :
       /\ quote_in' = r.words[i]
       /\ quoted' = quote(r.words[i])
  /\ words' = r.words
  /\ split_res' = ResUnset
  /\ UNCHANGED <<in_str, pos, line_no, last, items, joined, dq, sq>>

Resplit ==
  /\ quoted # Unset
  /\ split_res' = split(quoted)
  /\ UNCHANGED <<in_str, pos, line_no, last, items, quote_in, quoted, words,
                 joined, dq, sq>>

InitRound ==
  /\ in_str \in StringsUpTo(RoundBytes, MaxRoundLen)
  /\ Idle

NextRound == QuoteInput \/ QuoteWord \/ Resplit

SpecRound == InitRound /\ [][NextRound]_vars

(* SpecQuote: quote is applied to the input string. *)
Quote ==
  /\ quote_in' = in_str
  /\ quoted' = quote(in_str)
  /\ UNCHANGED <<in_str, pos, line_no, last, items, split_res, words, joined, dq, sq>>

InitQuote ==
  /\ in_str \in StringsUpTo(QuoteBytes, MaxQuoteLen)
  /\ Idle

NextQuote == Quote

SpecQuote == InitQuote /\ [][NextQuote]_vars

(* SpecJoin: join is applied to a sequence of words, and split to the     *)
(* joined string.                                                         *)
Join ==
  /\ joined' = join(words)
  /\ UNCHANGED <<in_str, pos, line_no, last, items, split_res, quote_in, quoted,
                 words, dq, sq>>

InitJoin ==
  /\ in_str = << >> /\ pos = 0 /\ line_no = 1 /\ last = NoPull /\ items = << >>
  /\ split_res = ResUnset /\ quote_in = Unset /\ quoted = Unset
  /\ joined = Unset /\ dq = DqUnset /\ sq = DqUnset
  /\ words \in StringsUpTo(StringsUpTo(JoinBytes, MaxWordLen), MaxWords)

(* A call of split on the joined string. *)
SplitJoined ==
  /\ joined # Unset
  /\ split_res' = split(joined)
  /\ UNCHANGED <<in_str, pos, line_no, last, items, quote_in, quoted, words,
                 joined, dq, sq>>

NextJoin == Join \/ SplitJoined

SpecJoin == InitJoin /\ [][NextJoin]_vars

(* SpecDouble: the input opens with a double quote; the scanner reads it  *)
(* as next and parse_word do and parse_double takes over.                 *)
ParseDouble ==
  /\ dq = DqUnset
  /\ LET n == next_char(shl)
         r == parse_double(n.sh, << >>)
     IN  /\ dq' = r
         /\ pos' = r.sh.pos
         /\ line_no' = r.sh.line_no
  /\ UNCHANGED <<in_str, last, items, split_res, quote_in, quoted, words, joined,
                 sq>>

InitDouble ==
  /\ in_str \in {<<DQUOTE>> \o b : b \in StringsUpTo(DoubleBytes, MaxDoubleLen)}
  /\ Idle

NextDouble == ParseDouble

SpecDouble == InitDouble /\ [][NextDouble]_vars

(* SpecSingle: the input opens with a single quote; the scanner reads it  *)
(* as next and parse_word do and parse_single takes over.                 *)
ParseSingle ==
  /\ sq = DqUnset
  /\ LET n == next_char(shl)
         r == parse_single(n.sh, << >>)
     IN  /\ sq' = r
         /\ pos' = r.sh.pos
         /\ line_no' = r.sh.line_no
  /\ UNCHANGED <<in_str, last, items, split_res, quote_in, quoted, words, joined,
                 dq>>

InitSingle ==
  /\ in_str \in {<<SQUOTE>> \o b : b \in StringsUpTo(SingleBytes, MaxSingleLen)}
  /\ Idle

NextSingle == ParseSingle

SpecSingle == InitSingle /\ [][NextSingle]_vars

(* SpecBytes: a scanner over a string of characters that include a        *)
(* carriage return, a dollar sign and a non-ASCII character is pulled.    *)
InitBytes ==
  /\ in_str \in {Flatten(u) : u \in StringsUpTo(ByteUnits, MaxUnits)}
  /\ Idle

NextBytes == Pull

SpecBytes == InitBytes /\ [][NextBytes]_vars

(* ===================== properties of the word stream ================== *)
(* The indices of the errors among the yielded items. *)
ErrIndices == {i \in 1..Len(items) : items[i].kind = "Err"}

(* The number of newline bytes among the first n bytes of s. *)
NewlinesIn(s, n) == Cardinality({i \in 1..n : s[i] = LF})

(* C2: the first error ends the stream.  items records every item a pull  *)
(* has yielded, so: once an error is among them it is the only error and  *)
(* the last item (no later pull yielded a word or a second error), the    *)
(* input is consumed to its end, and the latest pull returned that error  *)
(* or None.                                                               *)
C2_ErrorEndsStream ==
  ErrIndices # {} =>
    /\ ErrIndices = {Len(items)}
    /\ pos = Len(in_str)
    /\ last \in {items[Len(items)], ItemNone}

(* C2 witness: a word, then an error, then a pull that returned None. *)
C2_Witness ==
  /\ Len(items) >= 2
  /\ items[Len(items)].kind = "Err"
  /\ last = ItemNone

(* C3: split is fail-fast over the word stream.  Once the iterator over   *)
(* in_str is drained (a pull returned None), items is the whole stream:   *)
(* split(in_str) is the first error in it when there is one, without any  *)
(* of the words before it, and otherwise Ok of the words in order.        *)
C3_SplitFailFast ==
  (last = ItemNone /\ split_res # ResUnset) =>
    IF ErrIndices # {}
    THEN LET first == CHOOSE i \in ErrIndices : \A j \in ErrIndices : i <= j
         IN  split_res = ResErr(items[first].err)
    ELSE split_res = ResOk([i \in 1..Len(items) |-> items[i].word])

(* C3 witness: a drained stream of a word followed by an error, with      *)
(* split called.                                                          *)
C3_Witness ==
  /\ last = ItemNone
  /\ split_res.kind = "Err"
  /\ Len(items) >= 2
  /\ items[1].kind = "Ok"

(* C3 second witness case: two words and no error. *)
C3_WitnessOk ==
  /\ last = ItemNone
  /\ split_res.kind = "Ok"
  /\ Len(split_res.words) >= 2

(* The lexical position after each byte, read off the shell grammar one   *)
(* byte at a time: between words, in a comment, in an unquoted word, in a *)
(* double- or single-quoted span, and "_bs" right after a backslash that  *)
(* no earlier backslash escaped.                                          *)
LexStep(st, c) ==
  CASE st \in {"between", "word"} ->
         IF c \in {SPACE, TAB, LF} THEN "between"
         ELSE IF c = HASH /\ st = "between" THEN "comment"
         ELSE IF c = DQUOTE THEN "dq"
         ELSE IF c = SQUOTE THEN "sq"
         ELSE IF c = BACKSLASH THEN "word_bs"
         ELSE "word"
    [] st = "word_bs" -> "word"
    [] st = "comment" ->
         IF c = LF THEN "between"
         ELSE IF c = BACKSLASH THEN "comment_bs"
         ELSE "comment"
    [] st = "comment_bs" -> IF c = LF THEN "between" ELSE "comment"
    [] st = "dq" ->
         IF c = BACKSLASH THEN "dq_bs" ELSE IF c = DQUOTE THEN "word" ELSE "dq"
    [] st = "dq_bs" -> "dq"
    [] st = "sq" ->
         IF c = BACKSLASH THEN "sq_bs" ELSE IF c = SQUOTE THEN "word" ELSE "sq"
    [] st = "sq_bs" -> "sq"

RECURSIVE LexRun(_, _)
LexRun(st, s) == IF s = << >> THEN st ELSE LexRun(LexStep(st, Head(s)), Tail(s))

(* The lexical position at the end of the string s. *)
EndState(s) == LexRun("between", s)

InQuotation(st) == st \in {"dq", "dq_bs", "sq", "sq_bs"}
AfterBackslash(st) == st \in {"word_bs", "dq_bs", "sq_bs", "comment_bs"}

(* C4 as stated: split(s) is an error exactly when s ends inside a        *)
(* quotation or right after an unescaped backslash, wherever that         *)
(* backslash stands.                                                      *)
C4_Original ==
  split_res # ResUnset =>
    (split_res.kind = "Err" <=>
       (InQuotation(EndState(in_str)) \/ AfterBackslash(EndState(in_str))))

(* C4 amended: split(s) is an error exactly when s ends inside a          *)
(* quotation or right after an unescaped backslash that is not part of a  *)
(* comment; a backslash inside a comment is skipped with the comment.     *)
C4_ErrorIff ==
  split_res # ResUnset =>
    (split_res.kind = "Err" <=>
       (InQuotation(EndState(in_str)) \/ EndState(in_str) = "word_bs"))

(* C4 witness: an input that ends after an unquoted backslash, following  *)
(* an escaped backslash earlier on, on which split has failed.            *)
C4_Witness ==
  /\ split_res.kind = "Err"
  /\ EndState(in_str) = "word_bs"
  /\ Len(in_str) >= 3
  /\ in_str[1] = BACKSLASH /\ in_str[2] = BACKSLASH

(* C4 second witness case: an input ending in an escaped backslash, which *)
(* splits.                                                                *)
C4_WitnessOk ==
  /\ split_res.kind = "Ok"
  /\ Len(in_str) >= 2
  /\ in_str[Len(in_str)] = BACKSLASH
  /\ EndState(in_str) = "word"

(* C5 as stated: input ending right after a backslash gives               *)
(* EndOfStringBackslash wherever the backslash stands outside quotes or   *)
(* inside an open span; otherwise an open double-quoted span gives        *)
(* UnclosedDoubleQuote and an open single-quoted span                     *)
(* UnclosedSingleQuote.                                                   *)
C5_Original ==
  split_res # ResUnset =>
    LET st == EndState(in_str) IN
    /\ AfterBackslash(st) => split_res = ResErr(EndOfStringBackslash)
    /\ st = "dq" => split_res = ResErr(UnclosedDoubleQuote)
    /\ st = "sq" => split_res = ResErr(UnclosedSingleQuote)

(* C5 amended: the scanner state at end of input fixes the error kind:    *)
(* right after a backslash that is not part of a comment (in an unquoted  *)
(* word or inside either kind of open span) EndOfStringBackslash,         *)
(* otherwise inside an open double-quoted span UnclosedDoubleQuote and    *)
(* inside an open single-quoted span UnclosedSingleQuote, whatever quote  *)
(* characters of the other kind the span holds.                           *)
C5_ErrorKind ==
  split_res # ResUnset =>
    LET st == EndState(in_str) IN
    /\ st \in {"word_bs", "dq_bs", "sq_bs"} => split_res = ResErr(EndOfStringBackslash)
    /\ st = "dq" => split_res = ResErr(UnclosedDoubleQuote)
    /\ st = "sq" => split_res = ResErr(UnclosedSingleQuote)

(* C5 witness: the input ends after a backslash inside an open            *)
(* single-quoted span that holds a double quote, and split has reported   *)
(* the backslash.                                                         *)
C5_Witness ==
  /\ EndState(in_str) = "sq_bs"
  /\ \E i \in 1..Len(in_str) : in_str[i] = DQUOTE
  /\ split_res = ResErr(EndOfStringBackslash)

(* C5 second witness case: an open single-quoted span holding a double    *)
(* quote.                                                                 *)
C5_WitnessOther ==
  /\ EndState(in_str) = "sq"
  /\ \E i \in 1..Len(in_str) : in_str[i] = DQUOTE
  /\ split_res = ResErr(UnclosedSingleQuote)

(* C6: line_no is 1 plus the number of newline bytes in the consumed      *)
(* prefix of the input, in every state of the scanner.                    *)
C6_LineCounter ==
  /\ pos \in 0..Len(in_str)
  /\ line_no = 1 + NewlinesIn(in_str, pos)

(* C6 witness: the scanner stands at line 3 or later and has yielded a    *)
(* word that holds a newline, so one of the newlines it counted was       *)
(* consumed inside quotes.                                                *)
C6_Witness ==
  /\ line_no >= 3
  /\ \E i \in 1..Len(items) :
       items[i].kind = "Ok" /\ \E k \in 1..Len(items[i].word) : items[i].word[k] = LF

(* ===================== properties of quote and join =================== *)
(* The metacharacters: | & ; < > ( ) $ ` \ " ' space tab CR LF * ? [ # ~  *)
(* = %                                                                    *)
MetaChars == {124, 38, 59, 60, 62, 40, 41, 36, 96, 92, 34, 39, 32, 9, 13, 10,
              42, 63, 91, 35, 126, 61, 37}

(* The bytes a backslash is put before: $ ` " \ *)
Escaped == {36, 96, 34, 92}

HasMeta(s) == \E i \in 1..Len(s) : s[i] \in MetaChars

(* The number of bytes of s among the first n that get a backslash. *)
EscapedIn(s, n) == Cardinality({i \in 1..n : s[i] \in Escaped})

(* q is s between two double quotes, a backslash before each of $ ` " \   *)
(* and every byte of s copied in order: byte i of s stands after the      *)
(* opening quote and the backslashes of the bytes up to it, a backslash   *)
(* right before it when it is one of the four, and nothing else is there. *)
IsWrapped(q, s) ==
  /\ Len(q) = Len(s) + EscapedIn(s, Len(s)) + 2
  /\ q[1] = DQUOTE
  /\ q[Len(q)] = DQUOTE
  /\ \A i \in 1..Len(s) :
       LET at == 1 + i + EscapedIn(s, i) IN
       /\ q[at] = s[i]
       /\ s[i] \in Escaped => q[at - 1] = BACKSLASH

(* C1: round trip.  When quote has been applied to w, a string without a  *)
(* newline or a word of a successful split, and the result has been split *)
(* again, that split is Ok of the one word w.                             *)
C1_RoundTrip ==
  (/\ split_res # ResUnset
   /\ quote_in # Unset
   /\ \/ \A i \in 1..Len(quote_in) : quote_in[i] # LF
      \/ \E i \in 1..Len(words) : words[i] = quote_in)
    => split_res = ResOk(<<quote_in>>)

(* C1 witness: a word with a newline and a backslash, produced by a       *)
(* successful split, has gone through quote and split.                    *)
C1_Witness ==
  /\ split_res # ResUnset
  /\ \E i \in 1..Len(words) : words[i] = quote_in
  /\ \E i \in 1..Len(quote_in) : quote_in[i] = LF
  /\ \E i \in 1..Len(quote_in) : quote_in[i] = BACKSLASH

(* C1 second witness case: the empty string. *)
C1_WitnessEmpty ==
  /\ quote_in = << >>
  /\ quoted = <<DQUOTE, DQUOTE>>
  /\ split_res = ResOk(<< << >> >>)

(* C7: quote of the empty string is the two bytes "", and quote of a      *)
(* non-empty string with a metacharacter is the string wrapped in double  *)
(* quotes with a backslash before each $ ` " \ and nothing else changed.  *)
C7_QuotedForms ==
  quoted # Unset =>
    /\ quote_in = << >> => quoted = <<DQUOTE, DQUOTE>>
    /\ (quote_in # << >> /\ HasMeta(quote_in)) => IsWrapped(quoted, quote_in)

(* C7 witness: a string holding a backtick and a byte that is a           *)
(* metacharacter but gets no backslash has been quoted.                   *)
C7_Witness ==
  /\ quoted # Unset
  /\ Len(quote_in) = 2
  /\ quote_in[1] = BACKTICK
  /\ quote_in[2] = SQUOTE

(* C8 as stated: quote of any string without metacharacters is the string *)
(* itself.                                                                *)
C8_Original ==
  (quoted # Unset /\ ~HasMeta(quote_in)) => quoted = quote_in

(* C8 amended: quote of any non-empty string without metacharacters is    *)
(* the string itself, with no quotes added (the empty string, which has   *)
(* no metacharacter either, becomes the two bytes "").                    *)
C8_QuoteIdentity ==
  (quoted # Unset /\ quote_in # << >> /\ ~HasMeta(quote_in)) => quoted = quote_in

(* C8 witness: a string of two bytes that are no metacharacters, one of   *)
(* them ']', has been quoted.                                             *)
C8_Witness ==
  /\ quoted # Unset
  /\ Len(quote_in) = 2
  /\ ~HasMeta(quote_in)
  /\ quote_in[1] = 93

(* Where the quoted form of word i starts in the joined string: after the *)
(* quoted forms of the words before it and one space for each of them.    *)
RECURSIVE StartOf(_, _)
StartOf(ws, i) ==
  IF i = 1 THEN 0 ELSE StartOf(ws, i - 1) + Len(quote(ws[i - 1])) + 1

(* C9: join(words) is quote of each word in order with exactly one space  *)
(* between neighbours and none before or after; join of no words is the   *)
(* empty string and join of the one empty word is the two bytes "".       *)
C9_JoinForm ==
  joined # Unset =>
    LET n == Len(words) IN
    /\ n = 0 => joined = << >>
    /\ words = << << >> >> => joined = <<DQUOTE, DQUOTE>>
    /\ n > 0 => Len(joined) = StartOf(words, n) + Len(quote(words[n]))
    /\ \A i \in 1..n :
         /\ SubSeq(joined, StartOf(words, i) + 1,
                   StartOf(words, i) + Len(quote(words[i]))) = quote(words[i])
         /\ i > 1 => joined[StartOf(words, i)] = SPACE

(* C9 witness: two words, the first with a space inside and the second    *)
(* empty, have been joined.                                               *)
C9_Witness ==
  /\ joined # Unset
  /\ Len(words) = 2
  /\ \E k \in 1..Len(words[1]) : words[1][k] = SPACE
  /\ words[2] = << >>

(* ===================== properties of parse_double ===================== *)
(* What a backslash and the byte x after it emit inside double quotes. *)
DoublePair(x) ==
  IF x \in {DOLLAR, BACKTICK, DQUOTE, BACKSLASH} THEN <<x>>
  ELSE IF x = LF THEN << >>
  ELSE <<BACKSLASH, x>>

(* The reading of the bytes b that follow an opening double quote: the    *)
(* bytes emitted, the bytes used, and whether an unescaped double quote   *)
(* closed the span.                                                       *)
RECURSIVE DoubleSpan(_)
DoubleSpan(b) ==
  IF b = << >> THEN [out |-> << >>, used |-> 0, closed |-> FALSE]
  ELSE IF b[1] = DQUOTE THEN [out |-> << >>, used |-> 1, closed |-> TRUE]
  ELSE IF b[1] = BACKSLASH
       THEN IF Len(b) = 1 THEN [out |-> << >>, used |-> 1, closed |-> FALSE]
            ELSE LET r == DoubleSpan(SubSeq(b, 3, Len(b)))
                 IN  [out |-> DoublePair(b[2]) \o r.out, used |-> 2 + r.used,
                      closed |-> r.closed]
       ELSE LET r == DoubleSpan(Tail(b))
            IN  [out |-> <<b[1]>> \o r.out, used |-> 1 + r.used, closed |-> r.closed]

(* C10: inside a double-quoted span a backslash before $ ` " \ emits the  *)
(* escaped byte alone (an escaped " does not close the span), a backslash *)
(* before a newline emits nothing, a backslash before any other byte      *)
(* emits both bytes, an unescaped " closes the span and emits nothing,    *)
(* and every other byte is emitted unchanged and ends nothing.            *)
C10_DoubleQuoted ==
  dq # DqUnset =>
    LET r == DoubleSpan(Tail(in_str)) IN
    /\ dq.result = r.out
    /\ dq.sh.pos = 1 + r.used
    /\ ((dq.err = NoError) <=> r.closed)

(* C10 witness: a span with an escaped double quote, which did not close  *)
(* it, and a space, which did not end it, closed by an unescaped double   *)
(* quote.                                                                 *)
C10_Witness ==
  /\ dq.err = NoError
  /\ dq.result = <<DQUOTE, SPACE>>
  /\ dq.sh.pos = 5

(* C10 second witness case: a backslash before an ordinary byte. *)
C10_WitnessKeep ==
  /\ dq.err = NoError
  /\ dq.result = <<BACKSLASH, 97>>

(* ===================== properties of parse_single ===================== *)
(* What a backslash and the byte x after it emit inside single quotes. *)
SinglePair(x) == IF x \in {SQUOTE, BACKSLASH} THEN <<x>> ELSE <<BACKSLASH, x>>

(* The reading of the bytes b that follow an opening single quote: the    *)
(* bytes emitted, the bytes used, and whether an unescaped single quote   *)
(* closed the span.                                                       *)
RECURSIVE SingleSpan(_)
SingleSpan(b) ==
  IF b = << >> THEN [out |-> << >>, used |-> 0, closed |-> FALSE]
  ELSE IF b[1] = SQUOTE THEN [out |-> << >>, used |-> 1, closed |-> TRUE]
  ELSE IF b[1] = BACKSLASH
       THEN IF Len(b) = 1 THEN [out |-> << >>, used |-> 1, closed |-> FALSE]
            ELSE LET r == SingleSpan(SubSeq(b, 3, Len(b)))
                 IN  [out |-> SinglePair(b[2]) \o r.out, used |-> 2 + r.used,
                      closed |-> r.closed]
       ELSE LET r == SingleSpan(Tail(b))
            IN  [out |-> <<b[1]>> \o r.out, used |-> 1 + r.used, closed |-> r.closed]

(* C11: inside a single-quoted span only \' and \\ are escapes, emitting  *)
(* the escaped byte alone (an escaped ' does not close the span); a       *)
(* backslash before any other byte, newline, $ and " included, emits both *)
(* bytes; an unescaped ' closes the span; every other byte is emitted     *)
(* unchanged.                                                             *)
C11_SingleQuoted ==
  sq # DqUnset =>
    LET r == SingleSpan(Tail(in_str)) IN
    /\ sq.result = r.out
    /\ sq.sh.pos = 1 + r.used
    /\ ((sq.err = NoError) <=> r.closed)

(* C11 witness: a span with a backslash before a newline, both emitted,   *)
(* closed by an unescaped single quote.                                   *)
C11_Witness ==
  /\ sq.err = NoError
  /\ sq.result = <<BACKSLASH, LF>>
  /\ sq.sh.pos = 4

(* C11 second witness case: an escaped single quote, which did not close  *)
(* the span.                                                              *)
C11_WitnessEscaped ==
  /\ sq.err = NoError
  /\ sq.result = <<SQUOTE, 97>>
  /\ sq.sh.pos = 5

(* ===================== properties of parse_word ======================= *)
Whitespace == {SPACE, TAB, LF}

(* The input starts with the first byte of a word: it is not empty and    *)
(* its first byte is neither whitespace nor the start of a comment.       *)
StartsWord(s) == s # << >> /\ s[1] \notin Whitespace \cup {HASH}

(* The reading of an unquoted word from the bytes b: a backslash takes    *)
(* the next byte with it, whitespace ends the word.  quote tells that an  *)
(* unescaped quote character was met, where the reading stops; failed     *)
(* that the bytes ended right after a backslash.                          *)
RECURSIVE UnquotedRead(_)
UnquotedRead(b) ==
  IF b = << >> THEN [out |-> << >>, used |-> 0, failed |-> FALSE, quote |-> FALSE]
  ELSE IF b[1] \in Whitespace
       THEN [out |-> << >>, used |-> 1, failed |-> FALSE, quote |-> FALSE]
  ELSE IF b[1] \in {DQUOTE, SQUOTE}
       THEN [out |-> << >>, used |-> 0, failed |-> FALSE, quote |-> TRUE]
  ELSE IF b[1] = BACKSLASH
       THEN IF Len(b) = 1
            THEN [out |-> << >>, used |-> 1, failed |-> TRUE, quote |-> FALSE]
            ELSE LET r == UnquotedRead(SubSeq(b, 3, Len(b)))
                 IN  [r EXCEPT !.out = (IF b[2] = LF THEN << >> ELSE <<b[2]>>) \o @,
                               !.used = 2 + @]
       ELSE LET r == UnquotedRead(Tail(b))
            IN  [r EXCEPT !.out = <<b[1]>> \o @, !.used = 1 + @]

(* C12: outside quotes a backslash consumes exactly the next byte and     *)
(* drops itself: the byte is appended literally unless it is a newline,   *)
(* which appends nothing, and the word goes on; with no next byte the     *)
(* word fails with EndOfStringBackslash.  Stated of the first item of a   *)
(* stream whose first word meets no unescaped quote character: it is the  *)
(* unquoted reading of the input, and the pull that yielded it consumed   *)
(* exactly the bytes of that reading.                                     *)
C12_UnquotedBackslash ==
  (Len(items) >= 1 /\ StartsWord(in_str) /\ ~UnquotedRead(in_str).quote) =>
    LET r == UnquotedRead(in_str) IN
    /\ items[1] = IF r.failed THEN ItemErr(EndOfStringBackslash) ELSE ItemOk(r.out)
    /\ (Len(items) = 1 /\ last = items[1]) => pos = r.used

(* C12 witness: the word made of an escaped space and an escaped double   *)
(* quote has been yielded: neither ended the word nor opened a span.      *)
C12_Witness ==
  /\ Len(items) = 1
  /\ last = ItemOk(<<SPACE, DQUOTE>>)
  /\ in_str = <<BACKSLASH, SPACE, BACKSLASH, DQUOTE>>

(* C12 second witness case: a line continuation inside a word. *)
C12_WitnessContinuation ==
  /\ in_str = <<97, BACKSLASH, LF, 97>>
  /\ last = ItemOk(<<97, 97>>)

(* C12 third witness case: an escaped backslash, then a backslash at the  *)
(* end of input.                                                          *)
C12_WitnessEnd ==
  /\ in_str = <<BACKSLASH, BACKSLASH, BACKSLASH>>
  /\ last = ItemErr(EndOfStringBackslash)

(* The reading of one word from the bytes b, quoted spans included: the   *)
(* bytes of the word, the bytes used, and whether the reading succeeded   *)
(* (it fails when a span is left open or the bytes end after a            *)
(* backslash).  Only unquoted, unescaped whitespace or the end of the     *)
(* bytes ends the word.                                                   *)
RECURSIVE WordRead(_)
WordRead(b) ==
  IF b = << >> THEN [out |-> << >>, used |-> 0, ok |-> TRUE]
  ELSE IF b[1] \in Whitespace THEN [out |-> << >>, used |-> 1, ok |-> TRUE]
  ELSE IF b[1] \in {DQUOTE, SQUOTE}
       THEN LET q == IF b[1] = DQUOTE THEN DoubleSpan(Tail(b)) ELSE SingleSpan(Tail(b))
            IN  IF ~q.closed THEN [out |-> << >>, used |-> Len(b), ok |-> FALSE]
                ELSE LET r == WordRead(SubSeq(b, q.used + 2, Len(b)))
                     IN  [r EXCEPT !.out = q.out \o @, !.used = 1 + q.used + @]
  ELSE IF b[1] = BACKSLASH
       THEN IF Len(b) = 1 THEN [out |-> << >>, used |-> 1, ok |-> FALSE]
            ELSE LET r == WordRead(SubSeq(b, 3, Len(b)))
                 IN  [r EXCEPT !.out = (IF b[2] = LF THEN << >> ELSE <<b[2]>>) \o @,
                               !.used = 2 + @]
       ELSE LET r == WordRead(Tail(b))
            IN  [r EXCEPT !.out = <<b[1]>> \o @, !.used = 1 + @]

(* C13: a word ends only at an unquoted, unescaped space, tab or newline  *)
(* or at end of input, which is no error; the delimiter is not part of    *)
(* the word; quoted and unquoted segments with no delimiter between them  *)
(* make one word; a carriage return, a dollar sign and every other byte   *)
(* are word content.  Stated of the first item of a stream that starts    *)
(* with a word: it is the reading of that word, and the pull consumed     *)
(* the word and its delimiter.                                            *)
C13_WordBoundary ==
  (Len(items) >= 1 /\ StartsWord(in_str)) =>
    LET r == WordRead(in_str) IN
    /\ r.ok => items[1] = ItemOk(r.out)
    /\ ~r.ok => items[1].kind = "Err"
    /\ (Len(items) = 1 /\ last = items[1]) => pos = r.used

(* C13 witness: a quoted space and an unquoted carriage return with       *)
(* nothing between them have been yielded as one word, at end of input.   *)
C13_Witness ==
  /\ in_str = <<DQUOTE, SPACE, DQUOTE, CR>>
  /\ last = ItemOk(<<SPACE, CR>>)
  /\ pos = 4

(* C13 second witness case: a word ended by a newline, which is not part  *)
(* of it; the bytes after the newline are left.                           *)
C13_WitnessDelimiter ==
  /\ in_str = <<CR, DOLLAR, LF, DOLLAR>>
  /\ last = ItemOk(<<CR, DOLLAR>>)
  /\ pos = 3

(* ===================== properties of comments ========================= *)
(* The string s without its comments: every byte read in a comment, from  *)
(* the # that starts it to the newline that ends it, is left out.         *)
RECURSIVE Decomment(_, _)
Decomment(st, s) ==
  IF s = << >> THEN << >>
  ELSE LET st2 == LexStep(st, Head(s))
           rest == Decomment(st2, Tail(s))
       IN  IF st \in {"comment", "comment_bs"} \/ st2 = "comment"
           THEN rest
           ELSE <<Head(s)>> \o rest

(* The number of bytes c in the string s. *)
CountOf(c, s) == Cardinality({i \in 1..Len(s) : s[i] = c})

(* s holds nothing but whitespace and comments. *)
OnlyBlank(s) == Decomment("between", s) \in StringsUpTo(Whitespace, Len(s))

(* C14: comments are invisible in the word stream.  split of the input    *)
(* is split of the input without its comments, so no byte of a comment    *)
(* makes a word or an error; an input of whitespace and comments alone    *)
(* gives no item; every # that does not start a comment is in a word.     *)
C14_CommentsInvisible ==
  /\ split_res # ResUnset =>
       /\ split_res = split(Decomment("between", in_str))
       /\ split_res.kind = "Ok" =>
            CountOf(HASH, Flatten(split_res.words))
              = CountOf(HASH, Decomment("between", in_str))
  /\ OnlyBlank(in_str) => items = << >> /\ last \in {NoPull, ItemNone}

(* C14 witness: a comment that holds a double quote, then a word: split   *)
(* has returned the word alone.                                           *)
C14_Witness ==
  /\ in_str = <<HASH, DQUOTE, LF, 97>>
  /\ split_res = ResOk(<< <<97>> >>)

(* C14 witness case: a comment that ends the input with a backslash. *)
C14_WitnessBackslash ==
  /\ in_str = <<97, SPACE, HASH, BACKSLASH>>
  /\ split_res = ResOk(<< <<97>> >>)

(* C14 second witness case: a comment that runs to the end of input; the  *)
(* stream ended with no item.                                             *)
C14_WitnessEnd ==
  /\ in_str = <<SPACE, HASH, SQUOTE>>
  /\ last = ItemNone
  /\ items = << >>

(* C14 third witness case: a # inside quotes and a # in a word. *)
C14_WitnessContent ==
  /\ in_str = <<SQUOTE, HASH, SQUOTE, HASH>>
  /\ split_res = ResOk(<< <<HASH, HASH>> >>)

(* ===================== properties of a pull =========================== *)
(* The lexical position after the first n bytes of the input. *)
PrefixState(n) == LexRun("between", SubSeq(in_str, 1, n))

(* The number of words that start among the first n bytes of the input. *)
WordStartsIn(n) ==
  Cardinality({i \in 1..n : /\ PrefixState(i - 1) = "between"
                            /\ PrefixState(i) \notin {"between", "comment"}})

(* C15: a pull that yields a word consumes the input up to and including  *)
(* the one delimiter byte that ended the word, or up to end of input, and *)
(* nothing after it: the cursor stands right after a whitespace byte that *)
(* ended a word, or at the end of input inside a word; no later word has  *)
(* been started; line_no counts the newlines up to the cursor and no      *)
(* others.                                                                *)
C15_LazyPull ==
  last.kind = "Ok" =>
    /\ pos >= 1
    /\ \/ /\ in_str[pos] \in Whitespace
          /\ PrefixState(pos) = "between"
          /\ PrefixState(pos - 1) = "word"
       \/ /\ pos = Len(in_str)
          /\ PrefixState(pos) = "word"
    /\ WordStartsIn(pos) = Len(items)
    /\ line_no = 1 + NewlinesIn(in_str, pos)

(* C15 witness: the second word of newline, word, newline, word has been  *)
(* yielded and line_no reads 3.                                           *)
C15_Witness ==
  /\ in_str = <<LF, 97, LF, 97>>
  /\ Len(items) = 2
  /\ last = ItemOk(<<97>>)
  /\ line_no = 3

(* C15 second witness case: a word ended by a newline that another        *)
(* newline follows; the second newline is neither consumed nor counted.   *)
C15_WitnessLater ==
  /\ in_str = <<97, LF, LF>>
  /\ last = ItemOk(<<97>>)
  /\ pos = 2
  /\ line_no = 2

(* ===================== properties of the bytes ======================== *)
(* a is b with some bytes left out: the bytes of a are in b, in order. *)
RECURSIVE IsSubseq(_, _)
IsSubseq(a, b) ==
  IF a = << >> THEN TRUE
  ELSE IF b = << >> THEN FALSE
  ELSE IF Head(a) = Head(b) THEN IsSubseq(Tail(a), Tail(b))
  ELSE IsSubseq(a, Tail(b))

IsHigh(c) == c >= 128

(* The bytes of the words yielded so far, in order. *)
YieldedBytes ==
  Flatten([i \in 1..Len(items) |-> items[i].word])

(* C16: splitting only deletes bytes, and never a non-ASCII one outside a *)
(* comment.  The bytes of the yielded words, in order, are the input with *)
(* some bytes left out; and when the stream has ended without an error    *)
(* the bytes above 0x7F in the words are those of the input outside its   *)
(* comments, all of them and in order.                                    *)
C16_OpaqueBytes ==
  /\ IsSubseq(YieldedBytes, in_str)
  /\ (last = ItemNone /\ ErrIndices = {}) =>
       SelectSeq(YieldedBytes, IsHigh)
         = SelectSeq(Decomment("between", in_str), IsHigh)

(* C16 witness: a non-ASCII character after a backslash inside double     *)
(* quotes has been yielded whole, with the backslash, and the stream has  *)
(* ended.                                                                 *)
C16_Witness ==
  /\ in_str = <<DQUOTE, BACKSLASH, 195, 169, DQUOTE>>
  /\ items = <<ItemOk(<<BACKSLASH, 195, 169>>)>>
  /\ last = ItemNone

(* C16 second witness case: the character inside single quotes and       *)
(* unquoted.                                                              *)
C16_WitnessStates ==
  /\ in_str = <<SQUOTE, 195, 169, SQUOTE, 195, 169>>
  /\ items = <<ItemOk(<<195, 169, 195, 169>>)>>
  /\ last = ItemNone

(* C16 third witness case: the character inside a comment is skipped. *)
C16_WitnessComment ==
  /\ in_str = <<HASH, 195, 169, LF, 195, 169>>
  /\ items = <<ItemOk(<<195, 169>>)>>
  /\ last = ItemNone

(* ===================== progress of the word stream ==================== *)
(* What every step keeps: the cursor does not move back; a step that      *)
(* yields an item moves it forward; after a pull has returned None every  *)
(* pull returns None and leaves the cursor, the line counter and the      *)
(* items alone.                                                           *)
ForwardStep ==
  /\ pos' >= pos
  /\ items' # items => pos' > pos
  /\ last = ItemNone =>
       /\ last' = ItemNone
       /\ pos' = pos
       /\ line_no' = line_no
       /\ items' = items

(* C17: progress and termination of the word stream: the cursor only      *)
(* moves forward, a pull that yields an item consumes at least one byte,  *)
(* so the items yielded never outnumber the bytes consumed and an input   *)
(* of n bytes yields at most n items: of any n + 1 pulls one returns      *)
(* None, with the input consumed to its end; None once returned is        *)
(* returned for ever with cursor and line counter unchanged.              *)
C17_Progress ==
  /\ [][ForwardStep]_vars
  /\ [](/\ Len(items) <= pos
        /\ pos <= Len(in_str)
        /\ last = ItemNone => pos = Len(in_str))

(* C17 witness: three bytes, two words, both yielded, and a pull has      *)
(* returned None with the cursor at the end.                              *)
C17_Witness ==
  /\ in_str = <<97, SPACE, 97>>
  /\ Len(items) = 2
  /\ last = ItemNone
  /\ pos = 3

(* ===================== join and split ================================= *)
(* C18: join round trip: split of join(words) is Ok of the same words,    *)
(* as many, each equal, in the same order, for every sequence of words,   *)
(* the empty sequence and empty words included.                           *)
C18_JoinRoundTrip ==
  (joined # Unset /\ split_res # ResUnset) => split_res = ResOk(words)

(* C18 witness: the empty word and the word # have been joined and split  *)
(* back.                                                                  *)
C18_Witness ==
  /\ words = << << >>, <<HASH>> >>
  /\ joined = <<DQUOTE, DQUOTE, SPACE, DQUOTE, HASH, DQUOTE>>
  /\ split_res = ResOk(words)

(* C18 second witness case: no words at all. *)
C18_WitnessEmpty ==
  /\ words = << >>
  /\ joined = << >>
  /\ split_res = ResOk(<< >>)

(* C18 third witness case: a backslash and a double quote. *)
C18_WitnessEscapes ==
  /\ words = << <<BACKSLASH>>, <<DQUOTE>> >>
  /\ split_res = ResOk(words)

(* ===================== empty tokens =================================== *)
(* s is made of empty quote pairs and line continuations alone. *)
RECURSIVE IsEmptyToken(_)
IsEmptyToken(s) ==
  IF s = << >> THEN TRUE
  ELSE /\ Len(s) >= 2
       /\ SubSeq(s, 1, 2) \in {<<DQUOTE, DQUOTE>>, <<SQUOTE, SQUOTE>>,
                               <<BACKSLASH, LF>>}
       /\ IsEmptyToken(SubSeq(s, 3, Len(s)))

(* C19: a pull that has found the first byte of a word yields exactly one *)
(* item, whatever the word comes to: the items yielded are as many as the *)
(* words started in the consumed input, and an input that is one token of *)
(* empty quote pairs and line continuations yields the one word "".       *)
C19_EmptyTokens ==
  /\ Len(items) = WordStartsIn(pos)
  /\ (in_str # << >> /\ IsEmptyToken(in_str) /\ last # NoPull) =>
       items = <<ItemOk(<< >>)>>

(* C19 witness: the input backslash, newline has yielded the empty word   *)
(* and then None.                                                         *)
C19_Witness ==
  /\ in_str = <<BACKSLASH, LF>>
  /\ items = <<ItemOk(<< >>)>>
  /\ last = ItemNone

(* C19 second witness case: two empty quote pairs make one empty word. *)
C19_WitnessQuotes ==
  /\ in_str = <<DQUOTE, DQUOTE, SQUOTE, SQUOTE>>
  /\ items = <<ItemOk(<< >>)>>
  /\ last = ItemNone

(* C19 third witness case: a line continuation, a space and a word: the   *)
(* continuation is a word of its own.                                     *)
C19_WitnessThenWord ==
  /\ in_str = <<BACKSLASH, LF, SPACE, 97>>
  /\ items = <<ItemOk(<< >>), ItemOk(<<97>>)>>

====
